---- MODULE Spec2Model ----
(***************************************************************************)
(* Model of the generation-and-evaluation pipeline of the study app:       *)
(*   ICSE_8th_Physicsstudy_agent.py  (Study-Material Workflow)             *)
(*   ICSE_8th_Physics_test_agent.py  (Test Workflow, Answer Evaluator)     *)
(*   app.py  (uploads, the Generate, Test and History tabs, persistence)   *)
(* Spec runs the three functions one invocation at a time; AppSpec runs    *)
(* the app one script run at a time.                                       *)
(*                                                                         *)
(* Texts are sequences of characters.  A character is a one-character      *)
(* string, except the backtick, which is written Backtick.  Indices of     *)
(* the Python string operations (find, rfind, slices) are 0-based, as in   *)
(* the source.                                                             *)
(***************************************************************************)
EXTENDS Integers, Sequences, FiniteSets, TLC

(***************************************************************************)
(* Bounds of the model.                                                    *)
(***************************************************************************)
MaxKeys == 1          \* keys per generated JSON object
MaxArrayLen == 1      \* items per generated JSON array
MaxDepth == 1         \* nesting depth of generated JSON objects
MaxQuestions == 1     \* questions per difficulty band of a generated bank

(***************************************************************************)
(* Characters and Python string operations                                 *)
(***************************************************************************)
Backtick == "BACKTICK"
Quote == "\""
Newline == "\n"

\* str.strip() / the JSON decoder's WHITESPACE, restricted to the model's alphabet
Whitespace == {" ", "\n", "\t", "\r"}

Digits == {"0", "1", "2", "3", "4", "5", "6", "7", "8", "9"}

MinOf(S) == CHOOSE m \in S : \A o \in S : m <= o
MaxOf(S) == CHOOSE m \in S : \A o \in S : m >= o

\* the 0-based indices at which sub occurs in s
Occurrences(s, sub) ==
    {i \in 0..(Len(s) - Len(sub)) : SubSeq(s, i + 1, i + Len(sub)) = sub}

\* sub in s
Contains(s, sub) == Occurrences(s, sub) # {}

\* s.find(sub, start): lowest index >= start, or -1
Find(s, sub, start) ==
    LET found == {i \in Occurrences(s, sub) : i >= start}
    IN  IF found = {} THEN -1 ELSE MinOf(found)

\* s.rfind(sub): highest index, or -1
RFind(s, sub) ==
    IF Occurrences(s, sub) = {} THEN -1 ELSE MaxOf(Occurrences(s, sub))

\* a slice bound, as Python normalises it: negative counts from the end, then clamp
SliceIndex(i, n) ==
    IF i < 0 THEN (IF i + n < 0 THEN 0 ELSE i + n)
             ELSE (IF i > n THEN n ELSE i)

\* s[a:b]
Slice(s, a, b) ==
    LET lo == SliceIndex(a, Len(s))
        hi == SliceIndex(b, Len(s))
    IN  IF lo >= hi THEN <<>> ELSE SubSeq(s, lo + 1, hi)

RECURSIVE LStrip(_)
LStrip(s) ==
    IF s # <<>> /\ Head(s) \in Whitespace THEN LStrip(Tail(s)) ELSE s

RECURSIVE RStrip(_)
RStrip(s) ==
    IF s # <<>> /\ s[Len(s)] \in Whitespace
    THEN RStrip(SubSeq(s, 1, Len(s) - 1)) ELSE s

\* s.strip()
Strip(s) == RStrip(LStrip(s))

(***************************************************************************)
(* JSON values.  Every value is a record [t, s, a]: t the type, s the      *)
(* characters of a string or the digits of a number, a the items of an     *)
(* array or, for an object, its entries in insertion order as              *)
(* <<key1, value1, key2, value2, ...>> with the keys string values.        *)
(***************************************************************************)
JStr(chars) == [t |-> "str", s |-> chars, a |-> <<>>]
JNum(digits) == [t |-> "num", s |-> digits, a |-> <<>>]
JTrue == [t |-> "true", s |-> <<>>, a |-> <<>>]
JFalse == [t |-> "false", s |-> <<>>, a |-> <<>>]
JNull == [t |-> "null", s |-> <<>>, a |-> <<>>]
JArr(items) == [t |-> "arr", s |-> <<>>, a |-> items]
JObj(entries) == [t |-> "obj", s |-> <<>>, a |-> entries]

IsObj(v) == v.t = "obj"

\* the keys of an object value
ObjKeys(v) == {v.a[i].s : i \in {j \in 1..Len(v.a) : j % 2 = 1}}

\* key in v
HasKey(v, key) == IsObj(v) /\ key \in ObjKeys(v)

\* v[key], for a key that v has
ObjGet(v, key) ==
    LET i == CHOOSE j \in 1..Len(v.a) : j % 2 = 1 /\ v.a[j].s = key
    IN  v.a[i + 1]

\* d[key] = val on an insertion-ordered dict: a repeated key keeps its place
DictSet(entries, key, val) ==
    IF \E j \in 1..Len(entries) : j % 2 = 1 /\ entries[j].s = key
    THEN LET i == CHOOSE j \in 1..Len(entries) : j % 2 = 1 /\ entries[j].s = key
         IN  [entries EXCEPT ![i + 1] = val]
    ELSE entries \o <<JStr(key), val>>

(***************************************************************************)
(* json.dumps with the default separators (", " and ": ").  The strings    *)
(* of the model hold no quote, backslash, control or non-ASCII character,  *)
(* so a string is written as its characters between quotes.                *)
(***************************************************************************)
RECURSIVE Dumps(_)
RECURSIVE DumpItems(_)
RECURSIVE DumpEntries(_)

DumpItems(items) ==
    IF items = <<>> THEN <<>>
    ELSE Dumps(Head(items))
         \o (IF Len(items) > 1 THEN <<",", " ">> ELSE <<>>)
         \o DumpItems(Tail(items))

DumpEntries(entries) ==
    IF entries = <<>> THEN <<>>
    ELSE Dumps(entries[1]) \o <<":", " ">> \o Dumps(entries[2])
         \o (IF Len(entries) > 2 THEN <<",", " ">> ELSE <<>>)
         \o DumpEntries(SubSeq(entries, 3, Len(entries)))

Dumps(v) ==
    CASE v.t = "str" -> <<Quote>> \o v.s \o <<Quote>>
      [] v.t = "num" -> v.s
      [] v.t = "true" -> <<"t", "r", "u", "e">>
      [] v.t = "false" -> <<"f", "a", "l", "s", "e">>
      [] v.t = "null" -> <<"n", "u", "l", "l">>
      [] v.t = "arr" -> <<"[">> \o DumpItems(v.a) \o <<"]">>
      [] v.t = "obj" -> <<"{">> \o DumpEntries(v.a) \o <<"}">>

(***************************************************************************)
(* json.loads.  A scan result is [ok, val, end]: end is the 1-based        *)
(* position after the value.  ok = FALSE is json.JSONDecodeError.          *)
(* The grammar is the decoder's, over the model's alphabet: no escape      *)
(* sequences, and numbers are unsigned integers.  The texts of the model   *)
(* nest a few levels only, far below the interpreter's recursion limit.    *)
(***************************************************************************)
ScanFail == [ok |-> FALSE, val |-> JNull, end |-> 0]
ScanOk(v, e) == [ok |-> TRUE, val |-> v, end |-> e]

RECURSIVE SkipWs(_, _)
SkipWs(s, i) ==
    IF i <= Len(s) /\ s[i] \in Whitespace THEN SkipWs(s, i + 1) ELSE i

\* s has the characters of word at position i
StartsWith(s, i, word) ==
    i + Len(word) - 1 <= Len(s) /\ SubSeq(s, i, i + Len(word) - 1) = word

\* scanstring, strict: i is the position after the opening quote
RECURSIVE ScanString(_, _, _)
ScanString(s, i, acc) ==
    IF i > Len(s) THEN ScanFail                       \* unterminated string
    ELSE IF s[i] = Quote THEN ScanOk(JStr(acc), i + 1)
    ELSE IF s[i] \in {"\n", "\t", "\r"} THEN ScanFail \* invalid control character
    ELSE ScanString(s, i + 1, Append(acc, s[i]))

\* the integer part of NUMBER_RE: 0 | [1-9][0-9]*
RECURSIVE ScanDigits(_, _)
ScanDigits(s, i) ==
    IF i <= Len(s) /\ s[i] \in Digits THEN ScanDigits(s, i + 1) ELSE i

ScanNumber(s, i) ==
    IF s[i] = "0" THEN ScanOk(JNum(<<"0">>), i + 1)
    ELSE LET e == ScanDigits(s, i) IN ScanOk(JNum(SubSeq(s, i, e - 1)), e)

RECURSIVE ScanOnce(_, _)
RECURSIVE ScanArrayItems(_, _, _)
RECURSIVE ScanObjectEntries(_, _, _)

\* JSONArray, after the opening bracket and whitespace: i is at a value
ScanArrayItems(s, i, acc) ==
    LET r == ScanOnce(s, i)
    IN  IF ~r.ok THEN ScanFail
        ELSE LET e == SkipWs(s, r.end)
                 items == Append(acc, r.val)
             IN  IF e > Len(s) THEN ScanFail
                 ELSE IF s[e] = "]" THEN ScanOk(JArr(items), e + 1)
                 ELSE IF s[e] # "," THEN ScanFail     \* expecting ',' delimiter
                 ELSE ScanArrayItems(s, SkipWs(s, e + 1), items)

\* JSONObject, after the opening brace and whitespace: i is at a key's quote
ScanObjectEntries(s, i, acc) ==
    IF i > Len(s) \/ s[i] # Quote THEN ScanFail       \* expecting property name
    ELSE LET k == ScanString(s, i + 1, <<>>)
         IN  IF ~k.ok THEN ScanFail
             ELSE LET c == SkipWs(s, k.end)
                  IN  IF c > Len(s) \/ s[c] # ":" THEN ScanFail
                      ELSE LET r == ScanOnce(s, SkipWs(s, c + 1))
                           IN  IF ~r.ok THEN ScanFail
                               ELSE LET e == SkipWs(s, r.end)
                                        entries == DictSet(acc, k.val.s, r.val)
                                    IN  IF e > Len(s) THEN ScanFail
                                        ELSE IF s[e] = "}" THEN ScanOk(JObj(entries), e + 1)
                                        ELSE IF s[e] # "," THEN ScanFail
                                        ELSE ScanObjectEntries(s, SkipWs(s, e + 1), entries)

\* scan_once: the value that starts exactly at position i
ScanOnce(s, i) ==
    IF i > Len(s) THEN ScanFail                       \* expecting value
    ELSE IF s[i] = Quote THEN ScanString(s, i + 1, <<>>)
    ELSE IF s[i] = "{" THEN
        LET e == SkipWs(s, i + 1)
        IN  IF e <= Len(s) /\ s[e] = "}" THEN ScanOk(JObj(<<>>), e + 1)
            ELSE ScanObjectEntries(s, e, <<>>)
    ELSE IF s[i] = "[" THEN
        LET e == SkipWs(s, i + 1)
        IN  IF e <= Len(s) /\ s[e] = "]" THEN ScanOk(JArr(<<>>), e + 1)
            ELSE ScanArrayItems(s, e, <<>>)
    ELSE IF StartsWith(s, i, <<"n", "u", "l", "l">>) THEN ScanOk(JNull, i + 4)
    ELSE IF StartsWith(s, i, <<"t", "r", "u", "e">>) THEN ScanOk(JTrue, i + 4)
    ELSE IF StartsWith(s, i, <<"f", "a", "l", "s", "e">>) THEN ScanOk(JFalse, i + 5)
    ELSE IF s[i] \in Digits THEN ScanNumber(s, i)
    ELSE ScanFail

\* json.loads(s): one value with whitespace around it and nothing else
Loads(s) ==
    LET r == ScanOnce(s, SkipWs(s, 1))
    IN  IF ~r.ok THEN ScanFail
        ELSE IF SkipWs(s, r.end) # Len(s) + 1 THEN ScanFail   \* extra data
        ELSE r

\* json.dumps(v, indent=2): items on their own lines, indented by two spaces per level
Indent(level) == [i \in 1..(2 * level) |-> " "]

RECURSIVE DumpsIndent(_, _)
RECURSIVE DumpItemsIndent(_, _)
RECURSIVE DumpEntriesIndent(_, _)

DumpItemsIndent(items, level) ==
    IF items = <<>> THEN <<>>
    ELSE Indent(level) \o DumpsIndent(Head(items), level)
         \o (IF Len(items) > 1 THEN <<",", Newline>> ELSE <<>>)
         \o DumpItemsIndent(Tail(items), level)

DumpEntriesIndent(entries, level) ==
    IF entries = <<>> THEN <<>>
    ELSE Indent(level) \o Dumps(entries[1]) \o <<":", " ">>
         \o DumpsIndent(entries[2], level)
         \o (IF Len(entries) > 2 THEN <<",", Newline>> ELSE <<>>)
         \o DumpEntriesIndent(SubSeq(entries, 3, Len(entries)), level)

DumpsIndent(v, level) ==
    CASE v.t = "arr" /\ v.a # <<>> ->
            <<"[", Newline>> \o DumpItemsIndent(v.a, level + 1)
            \o <<Newline>> \o Indent(level) \o <<"]">>
      [] v.t = "obj" /\ v.a # <<>> ->
            <<"{", Newline>> \o DumpEntriesIndent(v.a, level + 1)
            \o <<Newline>> \o Indent(level) \o <<"}">>
      [] OTHER -> Dumps(v)

(***************************************************************************)
(* Text literals                                                           *)
(***************************************************************************)
FenceTag == <<Backtick, Backtick, Backtick, "j", "s", "o", "n">>     \* '```json'
Fence == <<Backtick, Backtick, Backtick>>                            \* '```'

K_mcqs == <<"m", "c", "q", "s">>
K_raw_response == <<"r", "a", "w", "_", "r", "e", "s", "p", "o", "n", "s", "e">>
K_raw_feedback == <<"r", "a", "w", "_", "f", "e", "e", "d", "b", "a", "c", "k">>

(***************************************************************************)
(* State                                                                   *)
(***************************************************************************)
VARIABLES
    op,             \* the function the caller has invoked: "none", "study", "test", "evaluate"
    pc,             \* position: "idle", a graph node, "END", "returned", "raised", "displayed"
    state,          \* the workflow state dict (for evaluate_answers: its arguments)
    calls,          \* the llm.invoke calls of this invocation, in order
    response_text,  \* response.content of the last completion call, None before it
    result,         \* the value returned to the caller, None when nothing was returned
    raised,         \* an exception propagated to the caller
    outputs,        \* the sections the Generate tab displays, None when it displays none
    json_str,       \* the candidate handed to json.loads, None when no parse was attempted
    session,        \* st.session_state of the app: uploader widget, stored documents, test
    db,             \* the four tables of the database, each a sequence of rows
    shown           \* what the last script run of the app put on the page

appvars == <<session, db, shown>>

vars == <<op, pc, state, calls, response_text, result, raised, outputs, json_str,
          session, db, shown>>

\* a value that may be None: None, or Some(v); x.none tells which
None == [none |-> TRUE]
Some(v) == [none |-> FALSE, v |-> v]

\* llm.invoke raised instead of returning a response
LLMError == <<"LLMError">>

\* st.session_state before any interaction: no file in the uploader, no key set
SessionInit ==
    [isce_uploader |-> <<>>, isce_topic |-> "Select a topic",
     isce_uploaded_files |-> None, test_data |-> None, test_topic |-> None,
     test_corrections |-> None]

\* the tables init_db creates, empty
DbInit ==
    [file_uploads |-> <<>>, generated_materials |-> <<>>, tests |-> <<>>,
     test_submissions |-> <<>>]

\* a script run that has not displayed anything yet
ShownInit ==
    [handler |-> "none", error |-> FALSE, saved |-> None, sections |-> None,
     test |-> FALSE, corrections |-> "absent", history |-> None]

(***************************************************************************)
(* Inputs of the Study-Material Workflow                                   *)
(***************************************************************************)
Themes == {"Theme 3: Force and Pressure", "Theme 5: Light Energy"}
ClassName == "Class 8"
Subject == "Physics"

Doc1 == [name |-> "notes.txt", text |-> "Pressure is force per unit area."]
UserDocsChoices == <<None, Some(<<>>), Some(<<Doc1>>)>>

\* counts as the Generate tab builds them from its number inputs' defaults
DefaultCounts ==
    JObj(<< JStr(<<"m", "c", "q">>), JNum(<<"6">>),
            JStr(<<"f", "i", "l", "l">>), JNum(<<"8">>),
            JStr(<<"s", "h", "o", "r", "t">>), JNum(<<"6">>),
            JStr(<<"m", "e", "d", "i", "u", "m">>), JNum(<<"4">>),
            JStr(<<"l", "o", "n", "g">>), JNum(<<"2">>) >>)
CountsChoices == <<None, Some(DefaultCounts)>>

\* response.content of a section's completion call
SectionTexts == {<<>>, <<" ", "a", Newline>>}

SectionKeys ==
    {"study_content", "mcqs", "true_false", "fill_blanks", "short_qa", "medium_qa", "long_qa"}

(***************************************************************************)
(* Prompt Builder (study).  A prompt is the record of the values its       *)
(* f-string interpolates; the fixed text around them is not spelled out.   *)
(***************************************************************************)
DocsText(user_docs) ==
    IF user_docs = <<>>
    THEN <<[marker |-> "No user documents provided."]>>
    ELSE [i \in 1..Len(user_docs) |->
            [file |-> user_docs[i].name, text |-> user_docs[i].text]]

generate_prompt(theme, class_name, subject, user_docs, counts) ==
    [template |-> "study",
     theme |-> theme, class_name |-> class_name, subject |-> subject,
     docs_text |-> DocsText(user_docs),
     counts_text |-> Dumps(counts)]

(***************************************************************************)
(* Study-Material Workflow                                                 *)
(***************************************************************************)
StudyNodes ==
    {"generate_study_content", "generate_mcqs", "generate_true_false",
     "generate_fill_blanks", "generate_short_qa", "generate_medium_qa",
     "generate_long_qa"}

\* add_edge(START, ...) and add_edge(node, next)
StartEdge == "generate_study_content"

Edge_SkipTrueFalse(node) ==
    CASE node = "generate_study_content" -> "generate_mcqs"
      [] node = "generate_mcqs" -> "generate_fill_blanks"
      [] node = "generate_true_false" -> "generate_fill_blanks"
      [] node = "generate_fill_blanks" -> "generate_short_qa"
      [] node = "generate_short_qa" -> "generate_medium_qa"
      [] node = "generate_medium_qa" -> "generate_long_qa"
      [] node = "generate_long_qa" -> "END"

Edge(node) ==
    CASE node = "generate_study_content" -> "generate_mcqs"
      [] node = "generate_mcqs" -> "generate_true_false"
      [] node = "generate_true_false" -> "generate_fill_blanks"
      [] node = "generate_fill_blanks" -> "generate_short_qa"
      [] node = "generate_short_qa" -> "generate_medium_qa"
      [] node = "generate_medium_qa" -> "generate_long_qa"
      [] node = "generate_long_qa" -> "END"

\* initial_state of generate_study_material
StudyInitialState(theme, class_name, subject, user_docs, counts) ==
    [theme |-> theme,
     class_name |-> class_name,
     subject |-> subject,
     prompt |-> <<>>,
     study_content |-> <<>>,
     mcqs |-> <<>>,
     true_false |-> <<>>,
     fill_blanks |-> <<>>,
     short_qa |-> <<>>,
     medium_qa |-> <<>>,
     long_qa |-> <<>>,
     user_docs |-> IF user_docs.none \/ user_docs.v = <<>> THEN <<>> ELSE user_docs.v,
     counts |-> IF counts.none \/ counts.v = JObj(<<>>) THEN JObj(<<>>) ELSE counts.v]

\* generate_study_material up to study_graph.invoke entering the first node
generate_study_material ==
    /\ pc = "idle"
    /\ \E theme \in Themes, d \in DOMAIN UserDocsChoices, c \in DOMAIN CountsChoices :
          state' = StudyInitialState(theme, ClassName, Subject,
                                     UserDocsChoices[d], CountsChoices[c])
    /\ op' = "study"
    /\ pc' = StartEdge
    /\ calls' = <<>>
    /\ response_text' = None
    /\ result' = None
    /\ raised' = FALSE
    /\ outputs' = None
    /\ json_str' = None
    /\ UNCHANGED appvars

\* the body of a node after llm.invoke: store response.content, or let the error propagate
NodeResult_Swallow(st, key, outcome) ==
    IF outcome = LLMError
    THEN [raised |-> FALSE, state |-> st]
    ELSE [raised |-> FALSE, state |-> [st EXCEPT ![key] = outcome]]

NodeResult(st, key, outcome) ==
    IF outcome = LLMError
    THEN [raised |-> TRUE, state |-> st]
    ELSE [raised |-> FALSE, state |-> [st EXCEPT ![key] = outcome]]

\* one node of the graph: build the prompt, one completion call, store, follow the edge
StudyNodeStep_Retry(node, key, suffix, outcome) ==
    LET prompt == [base |-> generate_prompt(state.theme, state.class_name,
                               state.subject, state.user_docs, state.counts),
                   suffix |-> suffix]
        r == NodeResult(state, key, outcome)
    IN  /\ calls' = Append(calls, [node |-> node, prompt |-> prompt,
                                   ok |-> outcome # LLMError])
        /\ response_text' = IF outcome = LLMError THEN response_text ELSE Some(outcome)
        /\ state' = r.state
        /\ raised' = FALSE
        /\ pc' = IF r.raised THEN node ELSE Edge(node)

StudyNodeStep(node, key, suffix, outcome) ==
    LET prompt == [base |-> generate_prompt(state.theme, state.class_name,
                               state.subject, state.user_docs, state.counts),
                   suffix |-> suffix]
        r == NodeResult(state, key, outcome)
    IN  /\ calls' = Append(calls, [node |-> node, prompt |-> prompt,
                                   ok |-> outcome # LLMError])
        /\ response_text' = IF outcome = LLMError THEN response_text ELSE Some(outcome)
        /\ state' = r.state
        /\ raised' = r.raised
        /\ pc' = IF r.raised THEN "raised" ELSE Edge(node)

\* llm.invoke returns some text, or raises
StudyNode(node, key, suffix) ==
    /\ op = "study"
    /\ pc = node
    /\ \/ \E text \in SectionTexts : StudyNodeStep(node, key, suffix, text)
       \/ StudyNodeStep(node, key, suffix, LLMError)
    /\ UNCHANGED <<op, result, outputs, json_str>>
    /\ UNCHANGED appvars

generate_study_content ==
    StudyNode("generate_study_content", "study_content",
              "Now provide the STUDY CONTENT & KEY POINTS section only.")

generate_mcqs_WrongKey ==
    StudyNode("generate_mcqs", "true_false",
              "Now provide the MCQs section only, respecting the requested counts.")

generate_mcqs ==
    StudyNode("generate_mcqs", "mcqs",
              "Now provide the MCQs section only, respecting the requested counts.")

generate_true_false ==
    StudyNode("generate_true_false", "true_false",
              "Now provide the True/False section only, respecting the requested counts.")

generate_fill_blanks ==
    StudyNode("generate_fill_blanks", "fill_blanks",
              "Now provide the Fill-in-the-Blanks section only, respecting the requested counts.")

generate_short_qa_Stalls ==
    /\ op = "study"
    /\ pc = "generate_short_qa"
    /\ UNCHANGED vars

generate_short_qa ==
    StudyNode("generate_short_qa", "short_qa",
              "Now provide the Short Q&A section only, respecting the requested counts and length.")

generate_medium_qa ==
    StudyNode("generate_medium_qa", "medium_qa",
              "Now provide the Medium Q&A section only, respecting the requested counts and length.")

generate_long_qa_Overwrites ==
    StudyNode("generate_long_qa", "study_content",
              "Now provide the Long Q&A section only, respecting the requested counts and length.")

generate_long_qa ==
    StudyNode("generate_long_qa", "long_qa",
              "Now provide the Long Q&A section only, respecting the requested counts and length.")

\* the graph reached END: study_graph.invoke returns the state, generate_study_material returns it
StudyReturn_DropsDocs ==
    /\ op = "study"
    /\ pc = "END"
    /\ result' = Some([state EXCEPT !.user_docs = <<>>])
    /\ pc' = "returned"
    /\ UNCHANGED <<op, state, calls, response_text, raised, outputs, json_str>>
    /\ UNCHANGED appvars

StudyReturn ==
    /\ op = "study"
    /\ pc = "END"
    /\ result' = Some(state)
    /\ pc' = "returned"
    /\ UNCHANGED <<op, state, calls, response_text, raised, outputs, json_str>>
    /\ UNCHANGED appvars

\* outputs of the Generate tab: result.get(key, '') for the seven sections
Outputs(res) ==
    [k \in SectionKeys |-> IF k \in DOMAIN res THEN res[k] ELSE <<>>]

\* the Generate tab after generate_study_material returned: build and display outputs
GenerateTabDisplay ==
    /\ op = "study"
    /\ pc = "returned"
    /\ outputs' = Some(Outputs(result.v))
    /\ pc' = "displayed"
    /\ UNCHANGED <<op, state, calls, response_text, result, raised, json_str>>
    /\ UNCHANGED appvars

(***************************************************************************)
(* Completion texts of the Test Workflow and the Answer Evaluator          *)
(***************************************************************************)
SeqsUpTo(S, n) == UNION {[1..k -> S] : k \in 0..n}

ObjectKeys == << <<"a">>, <<"b">>, <<"c">>, <<"d">> >>

\* a number, a string holding braces, a string holding a fence, a literal
Scalars == {JNum(<<"1">>), JStr(<<"}", "{">>), JStr(Fence), JTrue}

\* the object with keys ObjectKeys[1..Len(vals)] and the values vals
ObjectOf(vals) ==
    JObj([i \in 1..(2 * Len(vals)) |->
            IF i % 2 = 1 THEN JStr(ObjectKeys[(i + 1) \div 2]) ELSE vals[i \div 2]])

RECURSIVE GenValues(_)
RECURSIVE GenArrays(_)
RECURSIVE GenObjects(_)

\* arrays of up to MaxArrayLen values of nesting depth d
GenArrays(d) == {JArr(items) : items \in SeqsUpTo(GenValues(d), MaxArrayLen)}

\* objects: one key with a value of nesting depth d, or up to MaxKeys keys with scalars
GenObjects(d) ==
    {ObjectOf(<<v>>) : v \in GenValues(d)}
    \cup {ObjectOf(vals) : vals \in SeqsUpTo(Scalars, MaxKeys)}

GenValues(d) ==
    Scalars \cup (IF d = 0 THEN {} ELSE GenArrays(d - 1) \cup GenObjects(d - 1))

JsonObjects == GenObjects(MaxDepth)

\* a question bank with n MCQs in the band EASY
Question == JObj(<<JStr(<<"q", "u", "e", "s", "t", "i", "o", "n">>), JStr(<<"q">>)>>)
Bank(n) ==
    JObj(<<JStr(K_mcqs),
           JObj(<<JStr(<<"E", "A", "S", "Y">>), JArr([i \in 1..n |-> Question])>>)>>)
Banks == {Bank(n) : n \in 0..MaxQuestions}

\* the bank a stub client returns for num_mcq = 2: two MCQs over the bands, no other question
K_question == <<"q", "u", "e", "s", "t", "i", "o", "n">>
StubBank(text) ==
    JObj(<<JStr(K_mcqs),
           JObj(<<JStr(<<"E", "A", "S", "Y">>), JArr(<<JObj(<<JStr(K_question), JStr(text)>>)>>),
                  JStr(<<"H", "A", "R", "D">>), JArr(<<Question>>)>>),
           JStr(<<"t", "r", "u", "e", "_", "f", "a", "l", "s", "e">>),
           JObj(<<JStr(<<"E", "A", "S", "Y">>), JArr(<<>>)>>),
           JStr(<<"l", "o", "n", "g", "_", "q", "a">>),
           JObj(<<JStr(<<"E", "A", "S", "Y">>), JArr(<<>>)>>)>>)
StubBanks == {StubBank(<<"q">>), StubBank(FenceTag)}

\* "```json\n" + body + "\n```"
FencedText(body) == FenceTag \o <<Newline>> \o body \o <<Newline>> \o Fence
\* "noise {" + body + "} trailing"
NoiseBraceText(body) ==
    <<"n", "o", "i", "s", "e", " ", "{">> \o body
    \o <<"}", " ", "t", "r", "a", "i", "l", "i", "n", "g">>
\* "noise " + body + " trailing"
NoiseText(body) ==
    <<"n", "o", "i", "s", "e", " ">> \o body
    \o <<" ", "t", "r", "a", "i", "l", "i", "n", "g">>

PlainTexts ==
    { <<>>,
      <<"h", "i">>,
      <<"[", "1", "]">>,
      <<"4", "2">>,
      <<"t", "r", "u", "e">>,
      <<Quote, "x", Quote>>,
      <<"{">>,
      <<"}", "{">>,
      <<"a", "}">>,
      <<"{", "a", "}">>,
      FencedText(<<"[", "1", "]">>),
      FencedText(<<"{">>),
      FenceTag \o <<"{", "}">>,
      FenceTag \o <<"{", "}", " ">>,
      FenceTag \o <<"x">> \o Fence \o <<"{", "}">>,
      <<"{", "}">> \o FenceTag }

\* completions that are themselves a JSON object with the single key raw_response or
\* raw_feedback
WrapperTexts ==
    {Dumps(JObj(<<JStr(k), JStr(<<"x">>)>>)) : k \in {K_raw_response, K_raw_feedback}}

CompletionTexts ==
    WrapperTexts
    \cup {FencedText(Dumps(o)) : o \in JsonObjects}
    \cup {NoiseBraceText(Dumps(o)) : o \in JsonObjects}
    \cup {NoiseText(Dumps(o)) : o \in JsonObjects}
    \cup {Dumps(o) : o \in JsonObjects \cup Banks \cup StubBanks}
    \cup PlainTexts

(***************************************************************************)
(* Test Workflow                                                           *)
(***************************************************************************)
NumMcqChoices == {0, 2}

generate_test_prompt(theme, class_name, subject, num_mcq, num_true_false, num_fill_blanks, num_short_qa, num_medium_qa, num_long_qa) ==
    [template |-> "test",
     theme |-> theme, class_name |-> class_name, subject |-> subject,
     num_mcq |-> num_mcq, num_true_false |-> num_true_false,
     num_fill_blanks |-> num_fill_blanks, num_short_qa |-> num_short_qa,
     num_medium_qa |-> num_medium_qa, num_long_qa |-> num_long_qa]

\* initial_state of generate_test
TestInitialState(theme, class_name, subject, num_mcq, num_true_false, num_fill_blanks, num_short_qa, num_medium_qa, num_long_qa) ==
    [theme |-> theme, class_name |-> class_name, subject |-> subject,
     num_mcq |-> num_mcq, num_true_false |-> num_true_false,
     num_fill_blanks |-> num_fill_blanks, num_short_qa |-> num_short_qa,
     num_medium_qa |-> num_medium_qa, num_long_qa |-> num_long_qa,
     questions |-> JObj(<<>>), user_answers |-> JObj(<<>>), corrections |-> JObj(<<>>)]

\* the candidate json_str that generate_test_questions hands to json.loads
TestJsonStr_NoPlusOne(text) ==
    IF Contains(text, FenceTag) THEN
        LET json_start == Find(text, FenceTag, 0) + 7
            json_end == Find(text, Fence, json_start)
        IN  Strip(Slice(text, json_start, json_end))
    ELSE IF Contains(text, <<"{">>) THEN
        LET json_start == Find(text, <<"{">>, 0)
            json_end == RFind(text, <<"}">>)
        IN  Slice(text, json_start, json_end)
    ELSE text

TestJsonStr(text) ==
    IF Contains(text, FenceTag) THEN
        LET json_start == Find(text, FenceTag, 0) + 7
            json_end == Find(text, Fence, json_start)
        IN  Strip(Slice(text, json_start, json_end))
    ELSE IF Contains(text, <<"{">>) THEN
        LET json_start == Find(text, <<"{">>, 0)
            json_end == RFind(text, <<"}">>) + 1
        IN  Slice(text, json_start, json_end)
    ELSE text

\* try: questions = json.loads(json_str)  except JSONDecodeError: the raw_response wrapper
ParseQuestions_FallbackCandidate(text) ==
    LET r == Loads(TestJsonStr(text))
    IN  IF r.ok THEN r.val ELSE JObj(<<JStr(K_raw_response), JStr(TestJsonStr(text))>>)

ParseQuestions(text) ==
    LET r == Loads(TestJsonStr(text))
    IN  IF r.ok THEN r.val ELSE JObj(<<JStr(K_raw_response), JStr(text)>>)

\* the node generate_test_questions, given what llm.invoke did
generate_test_questions_FallThrough(st, outcome) ==
    IF outcome = LLMError
    THEN [raised |-> TRUE, state |-> st]
    ELSE LET r1 == Loads(TestJsonStr(outcome))
             r2 == Loads(Slice(outcome, Find(outcome, <<"{">>, 0),
                               RFind(outcome, <<"}">>) + 1))
         IN  [raised |-> FALSE,
              state |-> [st EXCEPT !.questions =
                            IF r1.ok THEN r1.val
                            ELSE IF r2.ok THEN r2.val
                            ELSE JObj(<<JStr(K_raw_response), JStr(outcome)>>)]]

generate_test_questions(st, outcome) ==
    IF outcome = LLMError
    THEN [raised |-> TRUE, state |-> st]
    ELSE [raised |-> FALSE, state |-> [st EXCEPT !.questions = ParseQuestions(outcome)]]

\* generate_test: initial state, the one-node graph, return its final state
GenerateTestCall_Twice(theme, num_mcq, outcome) ==
          LET st == TestInitialState(theme, ClassName, Subject, num_mcq, 5, 5, 3, 2, 1)
              prompt == generate_test_prompt(st.theme, st.class_name, st.subject,
                            st.num_mcq, st.num_true_false, st.num_fill_blanks,
                            st.num_short_qa, st.num_medium_qa, st.num_long_qa)
              r == generate_test_questions(st, outcome)
              call == [node |-> "generate_test_questions", prompt |-> prompt,
                       ok |-> outcome # LLMError]
          IN  /\ calls' = <<call, call>>
              /\ response_text' = IF outcome = LLMError THEN None ELSE Some(outcome)
              /\ json_str' = IF outcome = LLMError THEN None ELSE Some(TestJsonStr(outcome))
              /\ state' = r.state
              /\ raised' = r.raised
              /\ result' = IF r.raised THEN None ELSE Some(r.state)
              /\ pc' = IF r.raised THEN "raised" ELSE "returned"

GenerateTestCall(theme, num_mcq, outcome) ==
          LET st == TestInitialState(theme, ClassName, Subject, num_mcq, 5, 5, 3, 2, 1)
              prompt == generate_test_prompt(st.theme, st.class_name, st.subject,
                            st.num_mcq, st.num_true_false, st.num_fill_blanks,
                            st.num_short_qa, st.num_medium_qa, st.num_long_qa)
              r == generate_test_questions(st, outcome)
          IN  /\ calls' = <<[node |-> "generate_test_questions", prompt |-> prompt,
                             ok |-> outcome # LLMError]>>
              /\ response_text' = IF outcome = LLMError THEN None ELSE Some(outcome)
              /\ json_str' = IF outcome = LLMError THEN None ELSE Some(TestJsonStr(outcome))
              /\ state' = r.state
              /\ raised' = r.raised
              /\ result' = IF r.raised THEN None ELSE Some(r.state)
              /\ pc' = IF r.raised THEN "raised" ELSE "returned"

\* llm.invoke returns some text, or raises
generate_test ==
    /\ pc = "idle"
    /\ \E theme \in Themes, num_mcq \in NumMcqChoices :
          \/ \E text \in CompletionTexts : GenerateTestCall(theme, num_mcq, text)
          \/ GenerateTestCall(theme, num_mcq, LLMError)
    /\ op' = "test"
    /\ outputs' = None
    /\ UNCHANGED appvars

(***************************************************************************)
(* Answer Evaluator                                                        *)
(***************************************************************************)
K_mcq_EASY_0 == <<"m", "c", "q", "_", "E", "A", "S", "Y", "_", "0">>

QuestionsChoices == {Bank(0), Bank(1)}
UserAnswersChoices == {JObj(<<>>), JObj(<<JStr(K_mcq_EASY_0), JStr(<<"A">>)>>)}

\* the grading prompt: the f-string interpolates the two indented dumps
EvaluatePrompt(questions, user_answers) ==
    [template |-> "evaluate",
     questions_json |-> DumpsIndent(questions, 0),
     answers_json |-> DumpsIndent(user_answers, 0)]

\* the candidate json_str that evaluate_answers hands to json.loads
EvalJsonStr_FindBrace(text) ==
    IF Contains(text, FenceTag) THEN
        LET json_start == Find(text, FenceTag, 0) + 7
            json_end == Find(text, Fence, json_start)
        IN  Strip(Slice(text, json_start, json_end))
    ELSE IF Contains(text, <<"{">>) THEN
        LET json_start == Find(text, <<"{">>, 0)
            json_end == Find(text, <<"}">>, 0) + 1
        IN  Slice(text, json_start, json_end)
    ELSE text

EvalJsonStr(text) ==
    IF Contains(text, FenceTag) THEN
        LET json_start == Find(text, FenceTag, 0) + 7
            json_end == Find(text, Fence, json_start)
        IN  Strip(Slice(text, json_start, json_end))
    ELSE IF Contains(text, <<"{">>) THEN
        LET json_start == Find(text, <<"{">>, 0)
            json_end == RFind(text, <<"}">>) + 1
        IN  Slice(text, json_start, json_end)
    ELSE text

\* try: corrections = json.loads(json_str)  except JSONDecodeError: the raw_feedback wrapper
ParseCorrections_FallbackCandidate(text) ==
    LET r == Loads(EvalJsonStr(text))
    IN  IF r.ok THEN r.val ELSE JObj(<<JStr(K_raw_feedback), JStr(EvalJsonStr(text))>>)

ParseCorrections(text) ==
    LET r == Loads(EvalJsonStr(text))
    IN  IF r.ok THEN r.val ELSE JObj(<<JStr(K_raw_feedback), JStr(text)>>)

\* evaluate_answers, given what llm.invoke did: its completion calls and how it ends
EvaluateAnswers_SkipEmpty(questions, user_answers, outcome) ==
    IF user_answers = JObj(<<>>)
    THEN [calls |-> <<>>, raised |-> TRUE, result |-> None]
    ELSE [calls |-> <<[node |-> "evaluate_answers",
                       prompt |-> EvaluatePrompt(questions, user_answers),
                       ok |-> outcome # LLMError]>>,
          raised |-> outcome = LLMError,
          result |-> IF outcome = LLMError THEN None ELSE Some(ParseCorrections(outcome))]

EvaluateAnswers(questions, user_answers, outcome) ==
    [calls |-> <<[node |-> "evaluate_answers",
                  prompt |-> EvaluatePrompt(questions, user_answers),
                  ok |-> outcome # LLMError]>>,
     raised |-> outcome = LLMError,
     result |-> IF outcome = LLMError THEN None ELSE Some(ParseCorrections(outcome))]

EvaluateAnswersCall(questions, user_answers, outcome) ==
          LET r == EvaluateAnswers(questions, user_answers, outcome)
          IN  /\ state' = [questions |-> questions, user_answers |-> user_answers]
              /\ calls' = r.calls
              /\ response_text' = IF outcome = LLMError THEN None ELSE Some(outcome)
              /\ json_str' = IF outcome = LLMError THEN None ELSE Some(EvalJsonStr(outcome))
              /\ raised' = r.raised
              /\ result' = r.result
              /\ pc' = IF r.raised THEN "raised" ELSE "returned"

\* llm.invoke returns some text, or raises
evaluate_answers ==
    /\ pc = "idle"
    /\ \E questions \in QuestionsChoices, user_answers \in UserAnswersChoices :
          \/ \E text \in CompletionTexts : EvaluateAnswersCall(questions, user_answers, text)
          \/ EvaluateAnswersCall(questions, user_answers, LLMError)
    /\ op' = "evaluate"
    /\ outputs' = None
    /\ UNCHANGED appvars

(***************************************************************************)
(* The script run that invoked the function ends: its locals are gone and  *)
(* the next interaction starts a new run.                                  *)
(***************************************************************************)
ScriptRunEnds ==
    /\ \/ pc = "raised"
       \/ pc = "displayed"
       \/ pc = "returned" /\ op # "study"
    /\ op' = "none"
    /\ pc' = "idle"
    /\ state' = None
    /\ calls' = <<>>
    /\ response_text' = None
    /\ result' = None
    /\ raised' = FALSE
    /\ outputs' = None
    /\ json_str' = None
    /\ UNCHANGED appvars

Init ==
    /\ op = "none"
    /\ pc = "idle"
    /\ state = None
    /\ calls = <<>>
    /\ response_text = None
    /\ result = None
    /\ raised = FALSE
    /\ outputs = None
    /\ json_str = None
    /\ session = SessionInit
    /\ db = DbInit
    /\ shown = ShownInit

Next ==
    \/ generate_study_material
    \/ generate_study_content
    \/ generate_mcqs
    \/ generate_true_false
    \/ generate_fill_blanks
    \/ generate_short_qa
    \/ generate_medium_qa
    \/ generate_long_qa
    \/ StudyReturn
    \/ GenerateTabDisplay
    \/ generate_test
    \/ evaluate_answers
    \/ ScriptRunEnds

Spec == Init /\ [][Next]_vars

\* the steps study_graph.invoke takes by itself once generate_study_material was called:
\* the call is synchronous, each llm.invoke returns or raises, then the next node runs
StudyRunStep ==
    \/ generate_study_content
    \/ generate_mcqs
    \/ generate_true_false
    \/ generate_fill_blanks
    \/ generate_short_qa
    \/ generate_medium_qa
    \/ generate_long_qa
    \/ StudyReturn

LiveSpec == Init /\ [][Next]_vars /\ WF_vars(StudyRunStep)

(***************************************************************************)
(* The Streamlit app (app.py).  Every interaction reruns the script: the   *)
(* Upload tab's loop over the uploader's files, then the handler of the    *)
(* button that was pressed, then the display of the test and corrections.  *)
(* A text of an upload is kept as the part of the file's content it is:    *)
(* [src, from, len] is the len characters of src's content at offset from. *)
(***************************************************************************)
MaxRows == 1

\* text_content[:12000]
TruncLimit == 12000

Board == "ICSE"
ImageExts == {".png", ".jpg", ".jpeg", ".gif", ".bmp"}

\* an uploaded file: raw is what the reader of its type yields (None: the reader
\* raised), as lead whitespace characters, body characters, trail whitespace characters
UploadedFile(name, ext, size, raw) == [name |-> name, ext |-> ext, size |-> size, raw |-> raw]
RawText(lead, body, trail) == Some([lead |-> lead, body |-> body, trail |-> trail])

F_png == UploadedFile("photo.png", ".png", 2048, RawText(0, 10, 0))
F_blank == UploadedFile("blank.txt", ".txt", 3, RawText(3, 0, 0))
F_short == UploadedFile("notes.txt", ".txt", 9, RawText(2, 5, 2))
F_broken == UploadedFile("broken.pdf", ".pdf", 100, None)
F_exact == UploadedFile("exact.docx", ".docx", 12000, RawText(0, TruncLimit, 0))
F_long == UploadedFile("book.pdf", ".pdf", 12010, RawText(1, TruncLimit + 5, 4))

\* what the user may put into the uploader
UploaderChoices ==
    {<<>>, <<F_png, F_short, F_blank, F_long, F_broken, F_exact>>}

\* text.strip() of a file's raw text
StripRaw(file) == [src |-> file.name, from |-> file.raw.v.lead, len |-> file.raw.v.body]

\* extract_text_from_upload: None for images, reader errors and all-whitespace text
extract_text_from_upload(file) ==
    IF file.ext \in ImageExts THEN None
    ELSE IF file.raw.none THEN None
    ELSE IF StripRaw(file).len = 0 THEN None
    ELSE Some(StripRaw(file))

\* if len(text_content) > 12000: text_content = text_content[:12000]
Truncate_OffByOne(text) ==
    IF text.len > TruncLimit THEN [text EXCEPT !.len = TruncLimit + 1] ELSE text

Truncate(text) ==
    IF text.len > TruncLimit THEN [text EXCEPT !.len = TruncLimit] ELSE text

\* the loop body of the Upload tab for one file: the entry appended to stored, if any
StoredEntry(file) ==
    LET text_content == extract_text_from_upload(file)
    IN  IF text_content.none
        THEN <<>>
        ELSE <<[name |-> file.name, size |-> file.size, text |-> Truncate(text_content.v)]>>

\* stored after the loop over uploaded_files
RECURSIVE Stored(_)
Stored(files) ==
    IF files = <<>> THEN <<>> ELSE StoredEntry(Head(files)) \o Stored(Tail(files))

\* the number of rows in the database
RowCount(d) ==
    Len(d.file_uploads) + Len(d.generated_materials) + Len(d.tests) + Len(d.test_submissions)

\* connect, one INSERT, commit: up tells whether the database is reachable during this
\* script run, and it holds MaxRows rows at most; any exception is caught by the
\* caller and the table is left as it was
Insert(d, table, row, up) ==
    IF up /\ RowCount(d) < MaxRows
    THEN [ok |-> TRUE, db |-> [d EXCEPT ![table] = Append(@, row)]]
    ELSE [ok |-> FALSE, db |-> d]

save_file_record(d, up, board, class_name, subject, filename, file_size) ==
    Insert(d, "file_uploads",
           [board |-> board, class |-> class_name, subject |-> subject,
            filename |-> filename, file_size |-> file_size], up)

save_generated_material(d, up, board, class_name, subject, topic, params, files, outs) ==
    Insert(d, "generated_materials",
           [board |-> board, class |-> class_name, subject |-> subject, topic |-> topic,
            params |-> params, files |-> files, outputs |-> outs], up)

save_test(d, up, board, class_name, subject, topic, test_params, test_data) ==
    Insert(d, "tests",
           [board |-> board, class |-> class_name, subject |-> subject, topic |-> topic,
            test_params |-> test_params, test_data |-> Dumps(test_data)], up)

save_test_submission_Upsert(d, up, board, class_name, subject, topic, user_answers, corrections) ==
    IF up /\ d.test_submissions # <<>>
    THEN [ok |-> TRUE,
          db |-> [d EXCEPT !.test_submissions[Len(d.test_submissions)] =
                     [board |-> board, class |-> class_name, subject |-> subject,
                      topic |-> topic, user_answers |-> Dumps(user_answers),
                      corrections |-> Dumps(corrections)]]]
    ELSE Insert(d, "test_submissions",
           [board |-> board, class |-> class_name, subject |-> subject, topic |-> topic,
            user_answers |-> Dumps(user_answers), corrections |-> Dumps(corrections)], up)

save_test_submission(d, up, board, class_name, subject, topic, user_answers, corrections) ==
    Insert(d, "test_submissions",
           [board |-> board, class |-> class_name, subject |-> subject, topic |-> topic,
            user_answers |-> Dumps(user_answers), corrections |-> Dumps(corrections)], up)

\* the save_file_record calls of the Upload tab's loop, one per file
RECURSIVE SaveFileRecords(_, _, _)
SaveFileRecords(d, files, up) ==
    IF files = <<>> THEN d
    ELSE SaveFileRecords(
             save_file_record(d, up, Board, ClassName, Subject,
                              Head(files).name, Head(files).size).db,
             Tail(files), up)

\* the Upload tab in one script run: nothing when the uploader is empty, else the
\* loop and st.session_state['isce_uploaded_files'] = stored
UploadTab(sess, d, up) ==
    IF sess.isce_uploader = <<>>
    THEN [session |-> sess, db |-> d]
    ELSE [session |-> [sess EXCEPT !.isce_uploaded_files = Some(Stored(sess.isce_uploader))],
          db |-> SaveFileRecords(d, sess.isce_uploader, up)]

\* get_generated_materials: the rows of the topic, newest first; [] when the query fails
get_generated_materials(d, up, board, class_name, subject, topic) ==
    LET rows == SelectSeq(d.generated_materials,
                          LAMBDA r : /\ r.board = board /\ r.class = class_name
                                     /\ r.subject = subject /\ r.topic = topic)
    IN  IF up THEN [i \in 1..Len(rows) |-> rows[Len(rows) + 1 - i]] ELSE <<>>

\* the key under which each node stores its section
NodeKey_Shared(node) ==
    CASE node = "generate_study_content" -> "study_content"
      [] node = "generate_mcqs" -> "mcqs"
      [] node = "generate_true_false" -> "true_false"
      [] node = "generate_fill_blanks" -> "fill_blanks"
      [] node = "generate_short_qa" -> "short_qa"
      [] node = "generate_medium_qa" -> "medium_qa"
      [] node = "generate_long_qa" -> "study_content"

NodeKey(node) ==
    CASE node = "generate_study_content" -> "study_content"
      [] node = "generate_mcqs" -> "mcqs"
      [] node = "generate_true_false" -> "true_false"
      [] node = "generate_fill_blanks" -> "fill_blanks"
      [] node = "generate_short_qa" -> "short_qa"
      [] node = "generate_medium_qa" -> "medium_qa"
      [] node = "generate_long_qa" -> "long_qa"

\* study_graph.invoke as one call: the nodes in edge order, outcomes[node] being what
\* llm.invoke does in that node; stops at the first node that raises
RECURSIVE RunStudyGraph(_, _, _)
RunStudyGraph(node, st, outcomes) ==
    IF node = "END" THEN [raised |-> FALSE, state |-> st]
    ELSE LET r == NodeResult(st, NodeKey(node), outcomes[node])
         IN  IF r.raised THEN r ELSE RunStudyGraph(Edge(node), r.state, outcomes)

\* the completion client as the app sees it: every call returns the same short text,
\* except the call of the node `failing`, which raises
StudyOutcomes(failing) ==
    [n \in StudyNodes |-> IF n = failing THEN LLMError ELSE <<"a">>]

\* completions for the Test tab: a bank with one MCQ, or text that is no JSON
UiCorrections ==
    JObj(<<JStr(K_mcq_EASY_0),
           JObj(<<JStr(<<"i", "s", "_", "c", "o", "r", "r", "e", "c", "t">>), JTrue>>)>>)
UiTestTexts == {Dumps(Bank(1)), <<"h", "i">>}
UiEvalTexts == {Dumps(UiCorrections), <<"h", "i">>}

\* the number inputs of the Test tab at their defaults
TestParams ==
    [num_mcq |-> 5, num_tf |-> 5, num_fill |-> 5, num_short |-> 3, num_medium |-> 2,
     num_long |-> 1]

\* user_answers as the Test tab collects it from the rendered widgets: one entry
\* "mcq_<difficulty>_<idx>" per MCQ; a radio without options yields None.  The banks of
\* UiTestTexts hold MCQs only, so the loops over the other categories add nothing.
DigitChars == <<"0", "1", "2", "3", "4", "5", "6", "7", "8", "9">>
K_options == <<"o", "p", "t", "i", "o", "n", "s">>
McqKey(difficulty, idx) ==
    <<"m", "c", "q", "_">> \o difficulty \o <<"_", DigitChars[idx + 1]>>
RadioAnswer(q) ==
    IF HasKey(q, K_options) /\ ObjGet(q, K_options).a # <<>>
    THEN Head(ObjGet(q, K_options).a) ELSE JNull
BandAnswers(difficulty, questions) ==
    [j \in 1..(2 * Len(questions.a)) |->
        IF j % 2 = 1 THEN JStr(McqKey(difficulty, (j - 1) \div 2))
                     ELSE RadioAnswer(questions.a[j \div 2])]
RECURSIVE McqAnswers(_)
McqAnswers(entries) ==
    IF entries = <<>> THEN <<>>
    ELSE BandAnswers(entries[1].s, entries[2]) \o McqAnswers(SubSeq(entries, 3, Len(entries)))
UserAnswersOf(test_data) ==
    IF HasKey(test_data, K_mcqs) THEN JObj(McqAnswers(ObjGet(test_data, K_mcqs).a))
    ELSE JObj(<<>>)

\* the display guard of the Test tab: a test is held and it belongs to the selected topic
TestShown(sess) ==
    /\ sess.isce_topic # "Select a topic"
    /\ ~sess.test_data.none
    /\ ~sess.test_topic.none
    /\ sess.test_topic.v = sess.isce_topic

\* the corrections block: absent without the key, else it iterates corrections.items()
CorrectionsShown(sess) ==
    IF sess.test_corrections.none THEN "absent"
    ELSE IF IsObj(sess.test_corrections.v) THEN "shown" ELSE "error"

\* what a script run leaves on the page
Page(sess, handler, error, saved, sections, history) ==
    [handler |-> handler, error |-> error, saved |-> saved, sections |-> sections,
     test |-> TestShown(sess), corrections |-> CorrectionsShown(sess),
     history |-> history]

framevars == <<op, pc, state, calls, response_text, result, raised, outputs, json_str>>

\* the user puts files into the empty uploader; the script reruns
ChooseFiles ==
    /\ session.isce_uploader = <<>>
    /\ \E files \in UploaderChoices \ {<<>>}, up \in BOOLEAN :
          LET u == UploadTab([session EXCEPT !.isce_uploader = files], db, up)
          IN  /\ session' = u.session
              /\ db' = u.db
              /\ shown' = Page(u.session, "none", FALSE, None, None, None)
    /\ UNCHANGED framevars

\* the user picks another entry of the topic selectbox; the script reruns
SelectTopic ==
    /\ \E topic \in Themes \ {session.isce_topic}, up \in BOOLEAN :
          LET u == UploadTab([session EXCEPT !.isce_topic = topic], db, up)
          IN  /\ session' = u.session
              /\ db' = u.db
              /\ shown' = Page(u.session, "none", FALSE, None, None, None)
    /\ UNCHANGED framevars

\* "Generate Study Material": generate, save, display the sections
GenerateStudyRun_AbortOnSaveFailure(failing, up) ==
    LET u == UploadTab(session, db, up)
        selected_topic_value == session.isce_topic
        user_docs == IF u.session.isce_uploaded_files.none THEN <<>>
                     ELSE u.session.isce_uploaded_files.v
        run == RunStudyGraph(StartEdge,
                   StudyInitialState(selected_topic_value, ClassName, Subject,
                                     Some(user_docs), Some(DefaultCounts)),
                   StudyOutcomes(failing))
        outs == Outputs(run.state)
        s == save_generated_material(u.db, up, Board, ClassName, Subject,
                                     selected_topic_value, DefaultCounts, user_docs, outs)
    IN  /\ session' = u.session
        /\ db' = IF run.raised THEN u.db ELSE s.db
        /\ shown' = IF run.raised
                    THEN Page(u.session, "generate", TRUE, None, None, None)
                    ELSE IF ~s.ok
                    THEN Page(u.session, "generate", TRUE, Some(FALSE), None, None)
                    ELSE Page(u.session, "generate", FALSE, Some(TRUE), Some(outs), None)

GenerateStudyRun(failing, up) ==
    LET u == UploadTab(session, db, up)
        selected_topic_value == session.isce_topic
        user_docs == IF u.session.isce_uploaded_files.none THEN <<>>
                     ELSE u.session.isce_uploaded_files.v
        run == RunStudyGraph(StartEdge,
                   StudyInitialState(selected_topic_value, ClassName, Subject,
                                     Some(user_docs), Some(DefaultCounts)),
                   StudyOutcomes(failing))
        outs == Outputs(run.state)
        s == save_generated_material(u.db, up, Board, ClassName, Subject,
                                     selected_topic_value, DefaultCounts, user_docs, outs)
    IN  /\ session' = u.session
        /\ db' = IF run.raised THEN u.db ELSE s.db
        /\ shown' = IF run.raised
                    THEN Page(u.session, "generate", TRUE, None, None, None)
                    ELSE Page(u.session, "generate", FALSE, Some(s.ok), Some(outs), None)

\* the node whose completion call raises in a generation, if any
FailingChoices == {"none", "generate_long_qa"}

GenerateStudyClick ==
    /\ session.isce_topic # "Select a topic"
    /\ \E failing \in FailingChoices, up \in BOOLEAN : GenerateStudyRun(failing, up)
    /\ UNCHANGED framevars

\* "Generate Test": generate, hold the test in the session, save; st.rerun() after a
\* successful save runs the script once more
GenerateTestRun_ClearsOnFailure(outcome) ==
    LET selected_topic_value == session.isce_topic
        r == generate_test_questions(
                 TestInitialState(selected_topic_value, ClassName, Subject, 5, 5, 5, 3, 2, 1),
                 outcome)
        questions == r.state.questions
    IN  \E up \in BOOLEAN :
          LET u == UploadTab(session, db, up)
              held == [u.session EXCEPT !.test_data = Some(questions),
                                        !.test_topic = Some(selected_topic_value)]
              s == save_test(u.db, up, Board, ClassName, Subject, selected_topic_value,
                             TestParams, held.test_data.v)
              rerun == UploadTab(held, s.db, up)
          IN  IF r.raised
              THEN /\ session' = [u.session EXCEPT !.test_data = None, !.test_topic = None]
                   /\ db' = u.db
                   /\ shown' = Page(session', "generate_test", TRUE, None, None, None)
              ELSE IF s.ok
              THEN /\ session' = rerun.session
                   /\ db' = rerun.db
                   /\ shown' = Page(rerun.session, "generate_test", FALSE, Some(TRUE),
                                    None, None)
              ELSE /\ session' = held
                   /\ db' = s.db
                   /\ shown' = Page(held, "generate_test", FALSE, Some(FALSE), None, None)

GenerateTestRun(outcome) ==
    LET selected_topic_value == session.isce_topic
        r == generate_test_questions(
                 TestInitialState(selected_topic_value, ClassName, Subject, 5, 5, 5, 3, 2, 1),
                 outcome)
        questions == r.state.questions
    IN  \E up \in BOOLEAN :
          LET u == UploadTab(session, db, up)
              held == [u.session EXCEPT !.test_data = Some(questions),
                                        !.test_topic = Some(selected_topic_value)]
              s == save_test(u.db, up, Board, ClassName, Subject, selected_topic_value,
                             TestParams, held.test_data.v)
              rerun == UploadTab(held, s.db, up)
          IN  IF r.raised
              THEN /\ session' = u.session
                   /\ db' = u.db
                   /\ shown' = Page(u.session, "generate_test", TRUE, None, None, None)
              ELSE IF s.ok
              THEN /\ session' = rerun.session
                   /\ db' = rerun.db
                   /\ shown' = Page(rerun.session, "generate_test", FALSE, Some(TRUE),
                                    None, None)
              ELSE /\ session' = held
                   /\ db' = s.db
                   /\ shown' = Page(held, "generate_test", FALSE, Some(FALSE), None, None)

GenerateTestClick ==
    /\ session.isce_topic # "Select a topic"
    /\ \/ \E text \in UiTestTexts : GenerateTestRun(text)
       \/ GenerateTestRun(LLMError)
    /\ UNCHANGED framevars

\* "Submit Test": evaluate the answers, save the submission, hold the corrections
SubmitTestRun(outcome) ==
    LET test_data == session.test_data.v
        user_answers == UserAnswersOf(test_data)
        e == EvaluateAnswers(test_data, user_answers, outcome)
    IN  \E up \in BOOLEAN :
          LET u == UploadTab(session, db, up)
              s == save_test_submission(u.db, up, Board, ClassName, Subject,
                                        session.isce_topic, user_answers, e.result.v)
              held == [u.session EXCEPT !.test_corrections = e.result]
          IN  IF e.raised
              THEN /\ session' = u.session
                   /\ db' = u.db
                   /\ shown' = Page(u.session, "submit", TRUE, None, None, None)
              ELSE /\ session' = held
                   /\ db' = s.db
                   /\ shown' = Page(held, "submit", FALSE, Some(s.ok), None, None)

SubmitTestClick ==
    /\ TestShown(session)
    /\ \/ \E text \in UiEvalTexts : SubmitTestRun(text)
       \/ SubmitTestRun(LLMError)
    /\ UNCHANGED framevars

\* "Load History": read the generated materials of the selected topic
LoadHistoryClick ==
    /\ session.isce_topic # "Select a topic"
    /\ \E up \in BOOLEAN :
          LET u == UploadTab(session, db, up)
              records == get_generated_materials(u.db, up, Board, ClassName, Subject,
                                                 session.isce_topic)
          IN  /\ session' = u.session
              /\ db' = u.db
              /\ shown' = Page(u.session, "history", FALSE, None, None, Some(records))
    /\ UNCHANGED framevars

AppNext ==
    \/ ChooseFiles
    \/ SelectTopic
    \/ GenerateStudyClick
    \/ GenerateTestClick
    \/ SubmitTestClick
    \/ LoadHistoryClick

AppSpec == Init /\ [][AppNext]_vars

(***************************************************************************)
(* Properties                                                              *)
(***************************************************************************)
\* the order of the steps and of their section keys, as the specification states it
StudyOrder ==
    <<"generate_study_content", "generate_mcqs", "generate_true_false",
      "generate_fill_blanks", "generate_short_qa", "generate_medium_qa",
      "generate_long_qa">>
SectionOrder ==
    <<"study_content", "mcqs", "true_false", "fill_blanks", "short_qa",
      "medium_qa", "long_qa">>

\* the fallback wrapper: an object with the single key `key` holding `text`
Fallback(key, text) == JObj(<<JStr(key), JStr(text)>>)

\* the number of completion calls of this invocation that returned
ReturnedCalls == Cardinality({i \in 1..Len(calls) : calls[i].ok})

\* C1: the Study-Material Workflow runs its steps in the fixed order content, MCQs,
\* true/false, fill-blanks, short, medium, long Q&A, then done: the completion calls
\* issued so far are always an initial part of that order, each issued only after the
\* previous one returned, the step about to run is the next of the order, and the
\* workflow is done only after all seven ran once each.
C1_FixedStepOrder ==
    op = "study" =>
        /\ Len(calls) <= 7
        /\ \A i \in 1..Len(calls) : calls[i].node = StudyOrder[i]
        /\ \A i \in 1..(Len(calls) - 1) : calls[i].ok
        /\ pc \in StudyNodes => pc = StudyOrder[Len(calls) + 1]
        /\ pc \in {"END", "returned", "displayed"} => (Len(calls) = 7 /\ calls[7].ok)
        /\ pc = "raised" => ~calls[Len(calls)].ok

C1_Witness ==
    /\ op = "study"
    /\ pc = "returned"
    /\ Len(calls) = 7
    /\ calls[3].node = "generate_true_false"

\* C2: if any one of the seven completion calls fails, the workflow aborts: the failure
\* propagates, generate_study_material returns no record and the caller displays no
\* sections; a record is returned only when all seven calls returned.
C2_AbortNoPartialRecord ==
    op = "study" =>
        /\ (\E i \in 1..Len(calls) : ~calls[i].ok) =>
              (pc = "raised" /\ raised /\ result.none /\ outputs.none)
        /\ ~result.none => (Len(calls) = 7 /\ \A i \in 1..7 : calls[i].ok)

C2_Witness ==
    /\ op = "study"
    /\ pc = "raised"
    /\ Len(calls) = 7
    /\ state.study_content # <<>>
    /\ result.none

\* C3: the record of the Study-Material Workflow always has the seven section keys, each
\* holding a string; a section whose completion has not been produced yet holds the empty
\* string; the outputs built from the returned record have exactly the seven keys.
C3_SevenSectionKeys ==
    op = "study" =>
        /\ SectionKeys \subseteq DOMAIN state
        /\ \A k \in SectionKeys : state[k] \in SectionTexts
        /\ \A i \in 1..7 : i > ReturnedCalls => state[SectionOrder[i]] = <<>>
        /\ ~result.none =>
              /\ SectionKeys \subseteq DOMAIN result.v
              /\ \A k \in SectionKeys : result.v[k] \in SectionTexts
        /\ ~outputs.none =>
              /\ DOMAIN outputs.v = SectionKeys
              /\ \A k \in SectionKeys : outputs.v[k] = result.v[k]

C3_Witness ==
    /\ op = "study"
    /\ pc = "displayed"
    /\ outputs.v["study_content"] = <<>>
    /\ outputs.v["long_qa"] # <<>>

\* C4: for every JSON object O, the text "```json" newline dumps(O) newline "```" parses
\* to exactly O, also when a string value of O holds a ``` sequence or braces.
C4_FencedRoundTrip ==
    \A o \in JsonObjects :
        (/\ op = "test"
         /\ pc = "returned"
         /\ response_text.v = FencedText(Dumps(o)))
        => result.v.questions = o

\* C5: for every completion text with no { character, the parser yields the fallback
\* wrapper whose raw-text field is the input text exactly.
C5_NoBraceFallback ==
    (/\ op \in {"test", "evaluate"}
     /\ pc = "returned"
     /\ ~Contains(response_text.v, <<"{">>))
    => IF op = "test"
       THEN result.v.questions = Fallback(K_raw_response, response_text.v)
       ELSE result.v = Fallback(K_raw_feedback, response_text.v)

\* C6 as stated: for every JSON object O, the text "noise {" + dumps(O) + "} trailing"
\* with no ```json tag parses to O.
C6_NoiseBraceExtraction ==
    \A o \in JsonObjects :
        (/\ op = "test"
         /\ pc = "returned"
         /\ response_text.v = NoiseBraceText(Dumps(o))
         /\ ~Contains(response_text.v, FenceTag))
        => result.v.questions = o

\* C6 amended: for every JSON object O, the text "noise " + dumps(O) + " trailing"
\* with no ```json tag parses to O.
C6_BraceExtraction ==
    \A o \in JsonObjects :
        (/\ op = "test"
         /\ pc = "returned"
         /\ response_text.v = NoiseText(Dumps(o))
         /\ ~Contains(response_text.v, FenceTag))
        => result.v.questions = o

C6_Witness ==
    /\ op = "test"
    /\ pc = "returned"
    /\ response_text.v = NoiseText(Dumps(ObjectOf(<<JStr(<<"}", "{">>)>>)))
    /\ result.v.questions = ObjectOf(<<JStr(<<"}", "{">>)>>)

C8_EvaluatorAllOrNothing ==
    (op = "evaluate" /\ pc = "returned") =>
        LET r == Loads(EvalJsonStr(response_text.v))
        IN  IF r.ok
            THEN result.v = r.val
            ELSE result.v = Fallback(K_raw_feedback, response_text.v)

C8_Witness ==
    /\ op = "evaluate"
    /\ pc = "returned"
    /\ response_text.v = FencedText(<<"{">>)
    /\ result.v = Fallback(K_raw_feedback, response_text.v)

HasMcqQuestions(bank) ==
    /\ HasKey(bank, K_mcqs)
    /\ LET m == ObjGet(bank, K_mcqs)
       IN  \/ m.t = "arr" /\ m.a # <<>>
           \/ /\ m.t = "obj"
              /\ \E i \in 1..Len(m.a) : i % 2 = 0 /\ m.a[i].t = "arr" /\ m.a[i].a # <<>>

\* C10: for a request with num_mcq = 0 the "mcqs" entry of the returned bank, if present,
\* holds no question under any difficulty band.
C10_ZeroCountNoMcqs ==
    (/\ op = "test"
     /\ pc = "returned"
     /\ state.num_mcq = 0
     /\ HasKey(result.v.questions, K_mcqs))
    => ~HasMcqQuestions(result.v.questions)

\* C11: whenever the completion is a well-formed JSON string, the test workflow returns
\* as its question bank exactly the JSON value of that string
C11_StubBankReturned ==
    (op = "test" /\ pc = "returned" /\ Loads(response_text.v).ok)
        => result.v.questions = Loads(response_text.v).val

\* C13: a failed completion call is the last call of its invocation (study, test or
\* evaluation): the invocation has ended with the failure propagated and nothing returned
C13_NoRetryAfterFailure ==
    \A i \in 1..Len(calls) :
        ~calls[i].ok => /\ i = Len(calls)
                        /\ pc = "raised"
                        /\ raised
                        /\ result.none

C13_Witness ==
    /\ op = "study"
    /\ pc = "raised"
    /\ Len(calls) = 4
    /\ ~calls[4].ok
    /\ \A i \in 1..3 : calls[i].ok

\* C14: a study run that reached END has issued exactly seven completion calls, one
\* per section node; a test invocation and an evaluator invocation that ended have
\* issued exactly one, whatever the questions and answers are
C14_CallCounts ==
    /\ (op = "study" /\ pc \in {"END", "returned", "displayed"})
          => /\ Len(calls) = 7
             /\ \A n \in StudyNodes : Cardinality({i \in 1..Len(calls) : calls[i].node = n}) = 1
    /\ (op = "test" /\ pc \in {"returned", "raised"}) => Len(calls) = 1
    /\ (op = "evaluate" /\ pc \in {"returned", "raised"}) => Len(calls) = 1

C14_Witness ==
    /\ op = "evaluate"
    /\ pc = "returned"
    /\ state.questions = Bank(1)
    /\ state.user_answers # JObj(<<>>)
    /\ Len(calls) = 1

\* the request fields and the document context of a study workflow state
RequestOf(st) ==
    [theme |-> st.theme, class_name |-> st.class_name, subject |-> st.subject,
     counts |-> st.counts, user_docs |-> st.user_docs]

\* C17: no step of a study run changes theme, class_name, subject, counts or user_docs
\* of the workflow state, and the returned record carries the same five values
C17_RequestNeverMutated ==
    [][(op = "study" /\ op' = "study")
          => /\ RequestOf(state') = RequestOf(state)
             /\ ~result'.none => RequestOf(result'.v) = RequestOf(state)]_vars

C17_Witness ==
    /\ op = "study"
    /\ pc = "returned"
    /\ state.user_docs = <<Doc1>>
    /\ result.v.user_docs = <<Doc1>>
    /\ result.v.counts = DefaultCounts
    /\ result.v.long_qa # <<>>

\* the text after the first fence tag
AfterTag(text) == SubSeq(text, Find(text, FenceTag, 0) + 8, Len(text))

\* the tier-1 candidate as stated: up to the next fence, or else the whole remainder
TierOneStated(text) ==
    LET rest == AfterTag(text)
    IN  IF Contains(rest, Fence)
        THEN Strip(SubSeq(rest, 1, Find(rest, Fence, 0)))
        ELSE Strip(rest)

\* C19: for a completion text containing the fence tag, the candidate handed to
\* json.loads is the trimmed text between the first tag and the next fence after it,
\* and the trimmed whole remainder after the tag when no later fence exists
C19_TierOneCandidate ==
    (op \in {"test", "evaluate"} /\ pc = "returned" /\ Contains(response_text.v, FenceTag))
        => json_str.v = TierOneStated(response_text.v)

\* the tier-2 candidate as stated: first "{" to last "}" inclusive, empty when there is
\* no "}" or the last "}" precedes the first "{"
TierTwoStated(text) ==
    LET first == Find(text, <<"{">>, 0)
        last == RFind(text, <<"}">>)
    IN  IF last = -1 \/ last < first THEN <<>> ELSE SubSeq(text, first + 1, last + 1)

\* what was returned for the parse: the question bank, or the corrections
Parsed == IF op = "test" THEN result.v.questions ELSE result.v

\* C20: for a completion text without the fence tag and with a "{", the candidate is
\* the text from the first "{" to the last "}" inclusive; when that is empty the
\* result is the fallback wrapper holding the original text
C20_TierTwoCandidate ==
    (/\ op \in {"test", "evaluate"}
     /\ pc = "returned"
     /\ ~Contains(response_text.v, FenceTag)
     /\ Contains(response_text.v, <<"{">>))
        => /\ json_str.v = TierTwoStated(response_text.v)
           /\ json_str.v = <<>>
                => Parsed = Fallback(IF op = "test" THEN K_raw_response ELSE K_raw_feedback,
                                     response_text.v)

C20_Witness ==
    /\ op = "evaluate"
    /\ pc = "returned"
    /\ response_text.v = <<"}", "{">>
    /\ json_str.v = <<>>
    /\ result.v = Fallback(K_raw_feedback, <<"}", "{">>)

\* C15: when the save of a generated material, of a generated test or of a submission
\* has failed, the run shows no error: the seven sections are displayed, the test is
\* held in the session for the selected topic and displayed, the corrections are held
C15_SaveFailureContinues ==
    (~shown.saved.none /\ ~shown.saved.v)
        => /\ ~shown.error
           /\ shown.handler = "generate"
                => /\ ~shown.sections.none
                   /\ DOMAIN shown.sections.v = SectionKeys
           /\ shown.handler = "generate_test"
                => /\ ~session.test_data.none
                   /\ session.test_topic = Some(session.isce_topic)
                   /\ shown.test
           /\ shown.handler = "submit"
                => /\ ~session.test_corrections.none
                   /\ shown.corrections = "shown"

C15_Witness ==
    /\ shown.handler = "generate"
    /\ shown.saved = Some(FALSE)
    /\ ~shown.sections.none
    /\ shown.sections.v.long_qa = <<"a">>
    /\ db.generated_materials = <<>>

\* a is b, or b with rows appended
IsPrefixSeq(a, b) == Len(a) <= Len(b) /\ SubSeq(b, 1, Len(a)) = a

\* the rows saved by generations, test generations and submissions
OperationRows(d) == Len(d.generated_materials) + Len(d.tests) + Len(d.test_submissions)

AllFiles == UNION {{files[i] : i \in DOMAIN files} : files \in UploaderChoices}

\* a is the first characters of b
IsPrefixText(a, b) == a.src = b.src /\ a.from = b.from /\ a.len <= b.len

\* an entry of the document context: text of 1..12000 characters, a prefix of the text
\* extracted from the uploaded file of that name
GoodEntry(e) ==
    /\ e.text.len >= 1
    /\ e.text.len <= TruncLimit
    /\ \E f \in AllFiles :
          /\ f.name = e.name
          /\ ~extract_text_from_upload(f).none
          /\ IsPrefixText(e.text, extract_text_from_upload(f).v)

\* C18: every entry of the stored documents, and every entry of the documents a
\* generation was run with, has a non-empty text of at most 12000 characters that is a
\* prefix of the text extracted from its file
C18_DocumentContextEntries ==
    /\ ~session.isce_uploaded_files.none
          => \A i \in DOMAIN session.isce_uploaded_files.v :
                GoodEntry(session.isce_uploaded_files.v[i])
    /\ \A r \in DOMAIN db.generated_materials :
          \A i \in DOMAIN db.generated_materials[r].files :
             GoodEntry(db.generated_materials[r].files[i])

C18_Witness ==
    /\ shown.handler = "generate"
    /\ ~shown.sections.none
    /\ ~session.isce_uploaded_files.none
    /\ Len(session.isce_uploaded_files.v) = 3
    /\ \E i \in 1..3 : /\ session.isce_uploaded_files.v[i].name = "book.pdf"
                        /\ session.isce_uploaded_files.v[i].text.from = 1
                        /\ session.isce_uploaded_files.v[i].text.len = TruncLimit

\* the key of the fallback wrapper of the function that ran
FallbackKey == IF op = "test" THEN K_raw_response ELSE K_raw_feedback

\* sub occurs in s
IsSubstring(sub, s) == sub = <<>> \/ Contains(s, sub)

\* C21: one tier is selected per text (the fence tag first, then a "{", else the whole
\* text) and its candidate alone decides: when it does not parse the result is the
\* fallback wrapper of the original text, also when a lower tier's candidate parses
C21_NoFallThrough ==
    (op \in {"test", "evaluate"} /\ pc = "returned")
        => LET text == response_text.v
               cand == json_str.v
           IN  /\ Contains(text, FenceTag) => IsSubstring(cand, AfterTag(text))
               /\ (~Contains(text, FenceTag) /\ Contains(text, <<"{">>))
                     => cand = TierTwoStated(text)
               /\ (~Contains(text, FenceTag) /\ ~Contains(text, <<"{">>)) => cand = text
               /\ Parsed = IF Loads(cand).ok THEN Loads(cand).val
                                              ELSE Fallback(FallbackKey, text)

C21_Witness ==
    /\ op = "test"
    /\ pc = "returned"
    /\ response_text.v = FenceTag \o <<"x">> \o Fence \o <<"{", "}">>
    /\ json_str.v = <<"x">>
    /\ Loads(TierTwoStated(response_text.v)).ok
    /\ result.v.questions = Fallback(K_raw_response, response_text.v)

\* C22: for every completion text the evaluator's parsing and the test workflow's
\* parsing select the same candidate; when it parses both return its value, when it
\* does not they return the wrappers raw_feedback and raw_response of the same text
C22_ParsersEquivalent ==
    (op \in {"test", "evaluate"} /\ pc = "returned")
        => LET text == response_text.v
           IN  /\ json_str.v = TestJsonStr(text)
               /\ json_str.v = EvalJsonStr(text)
               /\ Loads(json_str.v).ok
                     => /\ ParseQuestions(text) = Parsed
                        /\ ParseCorrections(text) = Parsed
               /\ ~Loads(json_str.v).ok
                     => /\ ParseQuestions(text) = Fallback(K_raw_response, text)
                        /\ ParseCorrections(text) = Fallback(K_raw_feedback, text)
                        /\ Parsed = Fallback(FallbackKey, text)

C22_Witness ==
    /\ op = "evaluate"
    /\ pc = "returned"
    /\ response_text.v = Dumps(Bank(1))
    /\ json_str.v = response_text.v
    /\ result.v = Bank(1)
    /\ ParseQuestions(response_text.v) = Bank(1)

\* the section key of a step, by the stated order
KeyOfStep(node) == SectionOrder[CHOOSE i \in 1..7 : StudyOrder[i] = node]

\* C23: a step whose completion call returned stores the completion text, as it is,
\* under its own section key and leaves the six other section values as they were
C23_VerbatimOwnKey ==
    [][(/\ op = "study"
        /\ pc \in StudyNodes
        /\ Len(calls') = Len(calls) + 1
        /\ calls'[Len(calls')].ok)
          => /\ state'[KeyOfStep(pc)] = response_text'.v
             /\ \A k \in SectionKeys \ {KeyOfStep(pc)} : state'[k] = state[k]]_vars

C23_Witness ==
    /\ op = "study"
    /\ pc = "generate_fill_blanks"
    /\ state.study_content = <<" ", "a", Newline>>
    /\ state.mcqs = <<>>
    /\ state.true_false = <<" ", "a", Newline>>
    /\ response_text.v = <<" ", "a", Newline>>

\* the part of a step's prompt that is built from the workflow state
PromptBase(st) ==
    generate_prompt(st.theme, st.class_name, st.subject, st.user_docs, st.counts)

\* the state with every section value blank
Blank(st) == [k \in DOMAIN st |-> IF k \in SectionKeys THEN <<>> ELSE st[k]]

\* the state after the step `node` ran on st with the completion text `text`
StepApplied(node, st, text) == NodeResult(st, NodeKey(node), text).state

\* C24: the prompt of a step is built from the request and the documents alone (it is
\* the prompt of the state with its sections blanked, before and after any other step),
\* the step does to the state what StepApplied says, and the step commutes with every
\* other step, so that the seven steps in any order yield the same record
C24_StepsIndependent ==
    [][(op = "study" /\ pc \in StudyNodes /\ Len(calls') = Len(calls) + 1)
          => /\ calls'[Len(calls')].prompt.base = PromptBase(Blank(state))
             /\ calls'[Len(calls')].ok => state' = StepApplied(pc, state, response_text'.v)
             /\ \A k \in StudyNodes \ {pc} : \A tj \in SectionTexts, tk \in SectionTexts :
                   /\ PromptBase(StepApplied(k, state, tk)) = PromptBase(state)
                   /\ StepApplied(pc, StepApplied(k, state, tk), tj)
                         = StepApplied(k, StepApplied(pc, state, tj), tk)]_vars

C24_Witness ==
    /\ op = "study"
    /\ pc = "END"
    /\ Len(calls) = 7
    /\ state.study_content = <<>>
    /\ state.mcqs # <<>>
    /\ state.user_docs = <<Doc1>>
    /\ \A i \in 1..7 : calls[i].prompt.base = calls[1].prompt.base

\* C25: a study run issues at most seven completion calls, and a run that is in a
\* section node eventually has returned its record or has raised
C25_Termination ==
    /\ [](op = "study" => Len(calls) <= 7)
    /\ (op = "study" /\ pc \in StudyNodes)
          ~> (op = "study" /\ pc \in {"returned", "raised"})

C25_Witness ==
    /\ op = "study"
    /\ pc = "returned"
    /\ Len(calls) = 7
    /\ ~result.none
    /\ result.v.long_qa = <<>>
    /\ result.v.short_qa # <<>>

\* v is the wrapper the parser builds when the candidate is no JSON
IsFallbackWrapper(key, v) == IsObj(v) /\ ObjKeys(v) = {key}

\* C26: while the test held in the session is the raw_response wrapper, no question is
\* rendered from it and no script run has passed it to evaluate_answers
C26_FallbackNotTreatedAsBank ==
    (~session.test_data.none /\ IsFallbackWrapper(K_raw_response, session.test_data.v))
        => /\ UserAnswersOf(session.test_data.v) = JObj(<<>>)
           /\ shown.handler # "submit"

\* C27: a returned value that is an object with the single key raw_response (test
\* questions) or raw_feedback (evaluation) comes from a candidate that failed to parse
C27_WrapperOnlyOnFailure ==
    (op \in {"test", "evaluate"} /\ pc = "returned" /\ IsFallbackWrapper(FallbackKey, Parsed))
        => ~Loads(json_str.v).ok

\* C28: a script run whose completion call failed keeps what the session held before
\* (test_data and test_topic for "Generate Test", test_corrections for "Submit Test") and
\* appends no row to the table of its operation; a row is appended to tests,
\* test_submissions or generated_materials only by a run of the matching handler whose
\* call returned
C28_FailedCallLeavesState ==
    [][/\ (shown'.handler = "generate_test" /\ shown'.error)
            => /\ session'.test_data = session.test_data
               /\ session'.test_topic = session.test_topic
               /\ db'.tests = db.tests
       /\ (shown'.handler = "submit" /\ shown'.error)
            => /\ session'.test_corrections = session.test_corrections
               /\ db'.test_submissions = db.test_submissions
       /\ (shown'.handler = "generate" /\ shown'.error)
            => db'.generated_materials = db.generated_materials
       /\ db'.tests # db.tests
            => (shown'.handler = "generate_test" /\ ~shown'.error)
       /\ db'.test_submissions # db.test_submissions
            => (shown'.handler = "submit" /\ ~shown'.error)
       /\ db'.generated_materials # db.generated_materials
            => (shown'.handler = "generate" /\ ~shown'.error)]_vars

C28_Witness ==
    /\ shown.handler = "generate_test"
    /\ shown.error
    /\ ~session.test_data.none
    /\ session.test_topic = Some(session.isce_topic)
    /\ Len(db.tests) = 1

\* C29: corrections are on display only together with the test of the selected topic
\* they were computed for: none is displayed while no test of the selected topic is
\* held, and none is displayed by the run that has just generated a new test
C29_CorrectionsOfHeldTest ==
    /\ shown.corrections # "absent" => TestShown(session)
    /\ (shown.handler = "generate_test" /\ ~shown.error) => shown.corrections = "absent"

====
